---- MODULE Spec2Model ----
\* Retell form integration: call registry, webhook dispatcher, transcript
\* retrieval chain and e-mail delivery, modelled from the server
\* (src/unnamed/part_001, lines 393-852), its configuration
\* (src/unnamed/part_000) and the EmailService module
\* (src/unnamed/part_001, lines 177-391).
EXTENDS Integers, Sequences, FiniteSets, TLC

\* ---------------------------------------------------------------- bounds
MaxPending == 1
MaxConcurrent == 2
MaxEnvRetries == 2
ServerRetries == 2

\* ------------------------------------------------------- JavaScript values
\* undefined (a missing property) and the empty string are the falsy values
\* the handlers test with `!x`.
Absent == "undefined"
Falsy(x) == x \in {Absent, ""}
Truthy(x) == ~Falsy(x)

CallIds == {"c1", "c2"}
Transports == {"sendgrid", "gmail"}

\* ------------------------------------------------------------ environment
\* process.env as read by config/environment.js
EnvServices == {Absent, "sendgrid", "console"}
\* MAX_TRANSCRIPT_RETRIES: -1 stands for an unset variable. GMAIL_PASS: whether
\* the Gmail app password is set; the server builds its Gmail transporter
\* whether or not it is, so the server is modelled with it set.
EnvRetries == {-1} \cup (1 .. MaxEnvRetries)
\* RETRY_DELAY_MS in milliseconds, -1 for an unset variable.
EnvDelays == {-1, 0, 1000, 30000}
Envs == [EMAIL_SERVICE : EnvServices, MAX_TRANSCRIPT_RETRIES : EnvRetries,
         RETRY_DELAY_MS : {-1}, GMAIL_PASS : {TRUE}]

VARIABLES
  env,            \* process.env
  transportMode,  \* health of each e-mail transport: "up" or "flaky"
  callMap,        \* the registry: call id -> record
  issued,         \* call ids the voice provider has handed out
  registered,     \* history: call id -> the request and time it was stored for
  pendingInits,   \* initiation requests awaiting createPhoneCall
  handlerPc,      \* the webhook handler: "idle" or "awaiting"
  suspended,      \* exchanges of the handlers parked at their `await`
  last,           \* the last HTTP exchange: request and response
  chains,         \* retrieval chains started by getTranscriptAndSendEmail
  es,             \* the EmailService singleton and its call in progress
  backoff         \* the retryWithBackoff call in progress

vars == <<env, transportMode, callMap, issued, registered, pendingInits,
          handlerPc, suspended, last, chains, es, backoff>>

serverVars == <<callMap, issued, registered, pendingInits, handlerPc,
                suspended, last, chains>>

\* ---------------------------------------------------------- configuration
DefaultMaxRetries == 5

\* parseInt(process.env.MAX_TRANSCRIPT_RETRIES) || 5; -1 stands for an unset
\* variable (parseInt gives NaN), and 0 is falsy as well.
ConfigMaxRetries(e) ==
  IF e.MAX_TRANSCRIPT_RETRIES = -1 \/ e.MAX_TRANSCRIPT_RETRIES = 0
  THEN DefaultMaxRetries
  ELSE e.MAX_TRANSCRIPT_RETRIES

DefaultRetryDelay == 15000

\* variant: the delay is the fixed 15 seconds
ConfigRetryDelayFixed(e) == DefaultRetryDelay

\* parseInt(process.env.RETRY_DELAY_MS) || 15000
ConfigRetryDelay(e) ==
  IF e.RETRY_DELAY_MS = -1 \/ e.RETRY_DELAY_MS = 0
  THEN DefaultRetryDelay
  ELSE e.RETRY_DELAY_MS

\* process.env.EMAIL_SERVICE || 'gmail'
ConfigEmailService(e) ==
  IF Falsy(e.EMAIL_SERVICE) THEN "gmail" ELSE e.EMAIL_SERVICE

\* config.email.mailerSendApiKey: the configuration object defines no such
\* key (it defines sendgridApiKey), so the property reads undefined.
ConfigMailerSendApiKey(e) == Absent

\* config.email.gmail.password = process.env.GMAIL_PASS
ConfigGmailPassword(e) == e.GMAIL_PASS

maxRetries == ConfigMaxRetries(env)
retryDelay == ConfigRetryDelay(env)
emailService == ConfigEmailService(env)

\* ------------------------------------------------------------- transcripts
\* A transcript the provider returns: undefined, a string, or an object.
TUndefined == [type |-> "undefined", text |-> ""]
Transcripts == {TUndefined,
                [type |-> "string", text |-> ""],
                [type |-> "string", text |-> "Hello Ann"],
                [type |-> "object", text |-> "hi"]}

\* !callResponse.transcript || callResponse.transcript === ''
TranscriptMissing(t) ==
  \/ t.type = "undefined"
  \/ (t.type = "string" /\ t.text = "")

\* variant: an object transcript is not passed through JSON.stringify
FormatTranscriptRaw(t) ==
  IF t.type = "undefined" \/ (t.type = "string" /\ t.text = "")
  THEN "No transcript available."
  ELSE t.text

\* formatTranscript(transcript)
FormatTranscript(t) ==
  IF t.type = "undefined" \/ (t.type = "string" /\ t.text = "")
  THEN "No transcript available."
  ELSE IF t.type = "string" THEN t.text
  ELSE "[\"" \o t.text \o "\"]"

\* Outcomes of client.call.retrieve(callId)
FetchResults ==
  {[threw |-> TRUE, transcript |-> TUndefined]} \cup
  {[threw |-> FALSE, transcript |-> t] : t \in Transcripts}

\* Outcomes of a send through transport t
SendOutcomes(t) == IF transportMode[t] = "up" THEN {TRUE} ELSE BOOLEAN

\* ------------------------------------------------------ call initiation
\* req.body of POST /api/initiate-call: two complete forms (the second
\* without a name) and forms with phone or email missing or empty
InitBodies ==
  {[name |-> "Ann", phone |-> "9998887776", email |-> "ann@x.com"],
   [name |-> Absent, phone |-> "9998887776", email |-> "bob@x.com"],
   [name |-> "Ann", phone |-> Absent, email |-> "ann@x.com"],
   [name |-> "Ann", phone |-> "9998887776", email |-> Absent],
   [name |-> "Ann", phone |-> "9998887776", email |-> ""]}

\* Values of new Date().toISOString()
Times == {"T1", "T2"}

\* The last HTTP exchange: the request last received on either route, with
\* the response once it is sent (status 0: not yet answered).
NoExchange ==
  [route |-> "none", status |-> 0,
   name |-> Absent, phone |-> Absent, email |-> Absent, callId |-> Absent,
   event |-> Absent, hasCall |-> FALSE, call_id |-> Absent,
   call_status |-> Absent, end_timestamp |-> Absent,
   disconnection_reason |-> Absent,
   hadRecord |-> FALSE, started |-> 0, chain |-> 0]

InitExchange(b, status, id) ==
  [NoExchange EXCEPT !.route = "initiate", !.status = status,
                     !.name = b.name, !.phone = b.phone, !.email = b.email,
                     !.callId = id]

\* variant: only the phone is validated
InitiationValidPhoneOnly(b) == ~Falsy(b.phone)

\* if (!phone || !email) return res.status(400)
InitiationValid(b) == ~(Falsy(b.phone) \/ Falsy(b.email))

\* variant: a missing name is stored as 'User'
CallRecordDefaultName(b, t) ==
  [email |-> b.email, name |-> IF b.name = Absent THEN "User" ELSE b.name,
   phone |-> b.phone, timestamp |-> t]

\* callMap[callId] = { email, name, phone, timestamp }
CallRecord(b, t) ==
  [email |-> b.email, name |-> b.name, phone |-> b.phone, timestamp |-> t]

\* variant: every entry ends up referring to the record just stored
MapPutShared(m, id, rec) == [k \in DOMAIN m \cup {id} |-> rec]

\* variant: the assignment replaces the whole map
MapPutAlone(m, id, rec) == [k \in {id} |-> rec]

\* callMap[id] = rec
MapPut(m, id, rec) ==
  [k \in DOMAIN m \cup {id} |-> IF k = id THEN rec ELSE m[k]]

\* variant: deleting a missing call id empties the map
MapDeleteReset(m, id) ==
  IF id \in DOMAIN m THEN [k \in DOMAIN m \ {id} |-> m[k]] ELSE << >>

\* variant: the delete leaves the entry in place
MapDeleteKeep(m, id) == m

\* variant: the delete clears the whole map
MapDeleteAll(m, id) == << >>

\* delete callMap[id]
MapDelete(m, id) == [k \in DOMAIN m \ {id} |-> m[k]]

RemoveAt(q, i) == [j \in 1 .. (Len(q) - 1) |-> IF j < i THEN q[j] ELSE q[j + 1]]

\* POST /api/initiate-call up to `await client.call.createPhoneCall(...)`
InitiateReceive(b) ==
  /\ handlerPc = "idle"
  /\ IF InitiationValid(b)
     THEN /\ Len(pendingInits) < MaxPending
          /\ pendingInits' = Append(pendingInits, b)
          /\ last' = InitExchange(b, 0, Absent)
     ELSE /\ last' = InitExchange(b, 400, Absent)
          /\ UNCHANGED pendingInits
  /\ UNCHANGED <<env, transportMode, callMap, issued, registered, handlerPc,
               suspended, chains, es, backoff>>

\* The provider's call ids are opaque and unique: it hands them out in a
\* fixed order, and none once the model's ids are used up.
NextCallId ==
  IF "c1" \notin issued THEN "c1"
  ELSE IF "c2" \notin issued THEN "c2" ELSE Absent

\* createPhoneCall resolves with a fresh call id: the record is stored and
\* the request answered 200
InitiateCreated(i, id, t) ==
  /\ handlerPc = "idle"
  /\ i \in DOMAIN pendingInits
  /\ id = NextCallId
  /\ issued' = issued \cup {id}
  /\ callMap' = MapPut(callMap, id, CallRecord(pendingInits[i], t))
  /\ pendingInits' = RemoveAt(pendingInits, i)
  /\ last' = InitExchange(pendingInits[i], 200, id)
  /\ registered' = MapPut(registered, id, [body |-> pendingInits[i], time |-> t])
  /\ UNCHANGED <<env, transportMode, handlerPc, suspended, chains, es, backoff>>

\* variant: the catch submits the call creation again
InitiateFailedRetry(i) ==
  /\ handlerPc = "idle"
  /\ i \in DOMAIN pendingInits
  /\ pendingInits' = Append(RemoveAt(pendingInits, i), pendingInits[i])
  /\ last' = InitExchange(pendingInits[i], 500, Absent)
  /\ UNCHANGED <<env, transportMode, callMap, issued, registered, handlerPc,
               suspended, chains, es, backoff>>

\* createPhoneCall rejects: catch, 500
InitiateFailed(i) ==
  /\ handlerPc = "idle"
  /\ i \in DOMAIN pendingInits
  /\ pendingInits' = RemoveAt(pendingInits, i)
  /\ last' = InitExchange(pendingInits[i], 500, Absent)
  /\ UNCHANGED <<env, transportMode, callMap, issued, registered, handlerPc,
               suspended, chains, es, backoff>>

\* ------------------------------------------------------ retrieval chain
\* The transport the server sends through: SendGrid when
\* config.email.service === 'sendgrid', Gmail otherwise.
ConfiguredTransport == IF emailService = "sendgrid" THEN "sendgrid" ELSE "gmail"

\* getTranscriptAndSendEmail(callId, email, name = 'User'): retryCount = 0 and
\* the first attemptToGetTranscript() runs up to its `await retrieve`.
NewChain(callId, email, name) ==
  [callId |-> callId, email |-> email,
   name |-> IF name = Absent THEN "User" ELSE name,
   retryCount |-> 0, fetches |-> 1, empties |-> 0,
   threw |-> FALSE, pc |-> "fetching", fetched |-> TUndefined,
   body |-> Absent, deliveries |-> 0, logged |-> FALSE, errorCalls |-> 0,
   delay |-> 0, sends |-> <<>>]

\* variant: the comparison written `<=`
ShouldRetryInclusive(retryCount) == retryCount <= maxRetries

\* if (retryCount < config.call.maxRetries) setTimeout(...)
ShouldRetry(retryCount) == retryCount < maxRetries

\* sendErrorEmail(email, name, callId) up to its `await send`
SendErrorEmail(ch) ==
  [ch EXCEPT !.pc = "notifying", !.errorCalls = @ + 1]

\* variant: the catch retries while attempts remain
AttemptCatchRetry(ch) ==
  IF ch.retryCount + 1 < maxRetries
  THEN [ch EXCEPT !.retryCount = @ + 1, !.pc = "timer"]
  ELSE SendErrorEmail(ch)

\* catch (err) { await sendErrorEmail(email, name, callId); }
AttemptCatch(ch) == SendErrorEmail(ch)

\* variant: the console service sends through the transport as well
DeliverAlwaysSend(ch, t) ==
  [ch EXCEPT !.body = FormatTranscript(t), !.deliveries = @ + 1,
             !.pc = "sending"]

\* lines 587-611: format, then log (console) or send through the transport
Deliver(ch, t) ==
  LET c1 == [ch EXCEPT !.body = FormatTranscript(t), !.deliveries = @ + 1] IN
  IF emailService = "console"
  THEN [c1 EXCEPT !.pc = "done", !.logged = TRUE]
  ELSE [c1 EXCEPT !.pc = "sending"]

\* variant: an empty transcript is followed by the next fetch at once
AfterFetchImmediate(ch, r) ==
  IF r.threw THEN AttemptCatch([ch EXCEPT !.threw = TRUE])
  ELSE IF TranscriptMissing(r.transcript)
       THEN LET c1 == [ch EXCEPT !.retryCount = @ + 1, !.empties = @ + 1] IN
            IF ShouldRetry(c1.retryCount)
            THEN [c1 EXCEPT !.pc = "fetching", !.fetches = @ + 1]
            ELSE SendErrorEmail(c1)
       ELSE Deliver([ch EXCEPT !.fetched = r.transcript], r.transcript)

\* attemptToGetTranscript after `await client.call.retrieve(callId)` settles
AfterFetch(ch, r) ==
  IF r.threw THEN AttemptCatch([ch EXCEPT !.threw = TRUE])
  ELSE IF TranscriptMissing(r.transcript)
       THEN LET c1 == [ch EXCEPT !.retryCount = @ + 1, !.empties = @ + 1] IN
            IF ShouldRetry(c1.retryCount)
            THEN [c1 EXCEPT !.pc = "timer", !.delay = retryDelay]
            ELSE SendErrorEmail(c1)
       ELSE Deliver([ch EXCEPT !.fetched = r.transcript], r.transcript)

\* variant: the message goes to the sender's own address
MessageToSender(ch, kind, ok) ==
  [kind |-> kind, via |-> ConfiguredTransport, to |-> "noreply@x.com",
   callId |-> ch.callId,
   body |-> IF kind = "transcript" THEN ch.body ELSE Absent, ok |-> ok]

\* variant: the recipient is read from the registry when the message is sent
MessageFromRegistry(ch, kind, ok) ==
  [kind |-> kind, via |-> ConfiguredTransport,
   to |-> IF ch.callId \in DOMAIN callMap THEN callMap[ch.callId].email
          ELSE Absent,
   callId |-> ch.callId,
   body |-> IF kind = "transcript" THEN ch.body ELSE Absent, ok |-> ok]

\* variant: the failure notification always goes through Gmail
MessageErrorViaGmail(ch, kind, ok) ==
  [kind |-> kind,
   via |-> IF kind = "error" THEN "gmail" ELSE ConfiguredTransport,
   to |-> ch.email, callId |-> ch.callId,
   body |-> IF kind = "transcript" THEN ch.body ELSE Absent, ok |-> ok]

\* the message handed to sgMail.send / transporter.sendMail
Message(ch, kind, ok) ==
  [kind |-> kind, via |-> ConfiguredTransport, to |-> ch.email,
   callId |-> ch.callId,
   body |-> IF kind = "transcript" THEN ch.body ELSE Absent, ok |-> ok]

\* variant: a failed send is logged and nothing follows
AfterSendDrop(ch, ok) ==
  LET c1 == [ch EXCEPT !.sends = Append(@, Message(ch, "transcript", ok))] IN
  IF ok THEN [c1 EXCEPT !.pc = "done"] ELSE [c1 EXCEPT !.pc = "dropped"]

\* variant: something after the successful send throws into the catch
AfterSendThenThrow(ch, ok) ==
  AttemptCatch([ch EXCEPT !.sends = Append(@, Message(ch, "transcript", ok))])

\* sendEmailWithSendGrid / sendEmailWithGmail settle: success ends the chain,
\* failure is rethrown into attemptToGetTranscript's catch
AfterSend(ch, ok) ==
  LET c1 == [ch EXCEPT !.sends = Append(@, Message(ch, "transcript", ok))] IN
  IF ok THEN [c1 EXCEPT !.pc = "done"] ELSE AttemptCatch(c1)

\* variant: a failed notification is sent again
AfterNotifyRetry(ch, ok) ==
  LET c1 == [ch EXCEPT !.sends = Append(@, Message(ch, "error", ok))] IN
  IF ok THEN [c1 EXCEPT !.pc = "done"]
  ELSE [c1 EXCEPT !.pc = "notifying", !.errorCalls = @ + 1]

\* sendErrorEmail settles: a failure is caught and logged
AfterNotify(ch, ok) ==
  [ch EXCEPT !.sends = Append(@, Message(ch, "error", ok)), !.pc = "done"]

ChainVars == <<env, transportMode, callMap, issued, registered, pendingInits,
               handlerPc, suspended, last, es, backoff>>

\* variant: retryCount is one counter shared by every chain
ChainFetchReturnShared(i, r) ==
  /\ handlerPc = "idle"
  /\ i \in DOMAIN chains
  /\ chains[i].pc = "fetching"
  /\ chains' = [k \in DOMAIN chains |->
                  IF k = i THEN AfterFetch(chains[i], r)
                  ELSE [chains[k] EXCEPT
                          !.retryCount = AfterFetch(chains[i], r).retryCount]]
  /\ UNCHANGED ChainVars

ChainFetchReturn(i, r) ==
  /\ handlerPc = "idle"
  /\ i \in DOMAIN chains
  /\ chains[i].pc = "fetching"
  /\ chains' = [chains EXCEPT ![i] = AfterFetch(chains[i], r)]
  /\ UNCHANGED ChainVars

\* the setTimeout callback: attemptToGetTranscript runs again
ChainTimerFire(i) ==
  /\ handlerPc = "idle"
  /\ i \in DOMAIN chains
  /\ chains[i].pc = "timer"
  /\ chains' = [chains EXCEPT ![i].pc = "fetching", ![i].fetches = @ + 1]
  /\ UNCHANGED ChainVars

ChainSendReturn(i, ok) ==
  /\ handlerPc = "idle"
  /\ i \in DOMAIN chains
  /\ chains[i].pc = "sending"
  /\ ok \in SendOutcomes(ConfiguredTransport)
  /\ chains' = [chains EXCEPT ![i] = AfterSend(chains[i], ok)]
  /\ UNCHANGED ChainVars

ChainNotifyReturn(i, ok) ==
  /\ handlerPc = "idle"
  /\ i \in DOMAIN chains
  /\ chains[i].pc = "notifying"
  /\ ok \in SendOutcomes(ConfiguredTransport)
  /\ chains' = [chains EXCEPT ![i] = AfterNotify(chains[i], ok)]
  /\ UNCHANGED ChainVars

\* ---------------------------------------------------------- webhook
EndTimestamp == "1700000000000"

\* req.body of POST /: {event, call: {call_id, call_status, end_timestamp,
\* disconnection_reason}}; hasCall is FALSE when the body has no call object.
\* The call was hung up by the user unless stated otherwise.
Payload(ev, hasCall, id, st, ts) ==
  [event |-> ev, hasCall |-> hasCall, call_id |-> id, call_status |-> st,
   end_timestamp |-> ts,
   disconnection_reason |-> IF hasCall THEN "user_hangup" ELSE Absent]

\* the callee never answered
Unanswered(p) == [p EXCEPT !.disconnection_reason = "dial_no_answer"]

Payloads ==
  \* malformed envelopes
  {Payload(Absent, TRUE, "c1", "ended", EndTimestamp),
   Payload("", TRUE, "c1", "ended", EndTimestamp),
   Payload("call_ended", FALSE, Absent, Absent, Absent),
   Payload("call_ended", TRUE, Absent, "ended", EndTimestamp),
   Payload("call_ended", TRUE, "", "ended", EndTimestamp)} \cup
  \* events other than call_ended
  {Payload(ev, TRUE, id, "ended", EndTimestamp) :
     ev \in {"call_started", "call_analyzed", "call_unknown"}, id \in CallIds}
  \cup
  \* call_ended
  {Payload("call_ended", TRUE, id, st, ts) :
     id \in CallIds, st \in {"ended", "error"}, ts \in {Absent, EndTimestamp}}
  \cup
  {Unanswered(Payload("call_ended", TRUE, id, "ended", EndTimestamp)) :
     id \in CallIds}

\* variant: a call_ended event for an unknown call id is answered 404
WebhookExchangeNotFound(p, status, hadRecord, started, chain) ==
  [NoExchange EXCEPT !.route = "webhook",
                     !.status = IF status = 200 /\ ~hadRecord
                                     /\ p.event = "call_ended"
                                THEN 404 ELSE status,
                     !.event = p.event, !.hasCall = p.hasCall,
                     !.call_id = p.call_id, !.call_status = p.call_status,
                     !.end_timestamp = p.end_timestamp,
                     !.disconnection_reason = p.disconnection_reason,
                     !.hadRecord = hadRecord, !.started = started,
                     !.chain = chain]

\* the request as the handler destructures it, and the response it sends
WebhookExchange(p, status, hadRecord, started, chain) ==
  [NoExchange EXCEPT !.route = "webhook", !.status = status,
                     !.event = p.event, !.hasCall = p.hasCall,
                     !.call_id = p.call_id, !.call_status = p.call_status,
                     !.end_timestamp = p.end_timestamp,
                     !.disconnection_reason = p.disconnection_reason,
                     !.hadRecord = hadRecord, !.started = started,
                     !.chain = chain]

\* variant: the validation leaves out `!event`
ValidPayloadNoEvent(p) == ~(~p.hasCall \/ Falsy(p.call_id))

\* if (!event || !call || !call.call_id) return res.status(400)
ValidPayload(p) == ~(Falsy(p.event) \/ ~p.hasCall \/ Falsy(p.call_id))

\* variant: `case 'call_analyzed':` falls into the call_ended branch
IsCallEndedOrAnalyzed(p) == p.event \in {"call_ended", "call_analyzed"}

\* switch (event) { case 'call_ended': ... }
IsCallEnded(p) == p.event = "call_ended"

\* variant: the test leaves out `&& end_timestamp`
CompletedCallStatusOnly(p) == p.call_status = "ended"

\* if (call_status === 'ended' && end_timestamp)
CompletedCall(p) == p.call_status = "ended" /\ Truthy(p.end_timestamp)

\* variant: a call id whose handler is parked at its `await` is skipped
HasMappingUnlessInFlight(m, id) ==
  /\ id \in DOMAIN m /\ Truthy(m[id].email)
  /\ \A k \in DOMAIN suspended : suspended[k].call_id # id

\* variant: the test reads userInfo.name
HasMappingWithName(m, id) == id \in DOMAIN m /\ Truthy(m[id].name)

\* const userInfo = callMap[call_id]; if (userInfo && userInfo.email)
HasMapping(m, id) == id \in DOMAIN m /\ Truthy(m[id].email)

\* variant: the promise rejects
GetTranscriptRejects(ch) == "rejected"

\* The promise `await getTranscriptAndSendEmail(...)` waits for: the function
\* calls attemptToGetTranscript() without awaiting or returning it, so its
\* promise is fulfilled as soon as the first attempt has been started.
GetTranscriptSettles(ch) == "fulfilled"

\* POST / from its first line to its response, or to the `await` of the
\* call_ended branch. hadRecord notes whether the registry held the call id
\* when the request arrived.
WebhookHandler(p) ==
  /\ LET had == p.call_id \in DOMAIN callMap IN
     IF ~ValidPayload(p)
     THEN /\ last' = WebhookExchange(p, 400, had, 0, 0)
          /\ UNCHANGED <<callMap, chains, handlerPc, suspended>>
     ELSE IF IsCallEnded(p)
     THEN IF CompletedCall(p)
          THEN IF HasMapping(callMap, p.call_id)
               THEN /\ chains' = Append(chains,
                         NewChain(p.call_id, callMap[p.call_id].email,
                                  callMap[p.call_id].name))
                    /\ handlerPc' = "awaiting"
                    /\ last' = WebhookExchange(p, 0, had, 1, Len(chains) + 1)
                    /\ suspended' = Append(suspended,
                         WebhookExchange(p, 0, had, 1, Len(chains) + 1))
                    /\ UNCHANGED callMap
               ELSE /\ last' = WebhookExchange(p, 200, had, 0, 0)
                    /\ UNCHANGED <<callMap, chains, handlerPc, suspended>>
          ELSE /\ callMap' = IF p.call_id \in DOMAIN callMap
                             THEN MapDelete(callMap, p.call_id)
                             ELSE callMap
               /\ last' = WebhookExchange(p, 200, had, 0, 0)
               /\ UNCHANGED <<chains, handlerPc, suspended>>
     ELSE /\ last' = WebhookExchange(p, 200, had, 0, 0)
          /\ UNCHANGED <<callMap, chains, handlerPc, suspended>>
  /\ UNCHANGED <<env, transportMode, issued, registered, pendingInits, es, backoff>>

\* A webhook request arrives while no handler is parked at its `await`.
WebhookReceive(p) ==
  /\ handlerPc = "idle"
  /\ WebhookHandler(p)

\* A webhook request whose handler runs while earlier handlers are parked at
\* their `await`: Node drains the process.nextTick queue, from which the body
\* parser's 'end' event invokes the handler, before it runs promise
\* continuations, so requests whose bodies complete in the same tick (two
\* requests pipelined on one connection) have their handlers run back to
\* back up to the `await`.
WebhookPipelined(p) ==
  /\ handlerPc = "awaiting"
  /\ Len(suspended) < MaxConcurrent
  /\ WebhookHandler(p)

\* variant: the continuation waits until the retrieval chain has finished
WebhookResumeAfterChain ==
  /\ handlerPc = "awaiting"
  /\ suspended # << >>
  /\ chains[Head(suspended).chain].pc = "done"
  /\ suspended' = Tail(suspended)
  /\ handlerPc' = IF Tail(suspended) = << >> THEN "idle" ELSE "awaiting"
  /\ callMap' = MapDelete(callMap, Head(suspended).call_id)
  /\ last' = [Head(suspended) EXCEPT !.status = 200]
  /\ UNCHANGED <<env, transportMode, issued, registered, pendingInits, chains,
               es, backoff>>

\* The continuation of the handler after `await getTranscriptAndSendEmail`:
\* it runs as a microtask, before any timer or I/O callback. A fulfilled
\* promise leads to `delete callMap[call_id]` and the 200 response, a
\* rejected one to the catch block and the 500 response.
WebhookResume ==
  /\ handlerPc = "awaiting"
  /\ suspended # << >>
  /\ suspended' = Tail(suspended)
  /\ handlerPc' = IF Tail(suspended) = << >> THEN "idle" ELSE "awaiting"
  /\ LET x == Head(suspended) IN
     IF GetTranscriptSettles(chains[x.chain]) = "fulfilled"
     THEN /\ callMap' = MapDelete(callMap, x.call_id)
          /\ last' = [x EXCEPT !.status = 200]
     ELSE /\ last' = [x EXCEPT !.status = 500]
          /\ UNCHANGED callMap
  /\ UNCHANGED <<env, transportMode, issued, registered, pendingInits, chains,
               es, backoff>>

\* ------------------------------------------------------ EmailService
MaxESCalls == 2

ESTransports == {"mailersend", "gmail"}
ESEnvServices == {Absent, "sendgrid", "console", "mailersend"}
ESTexts == {"", "Hello Ann"}

\* The module is not loaded by the server: under Spec it is never constructed.
ESNone == [mailerSend |-> FALSE, gmailTransporter |-> FALSE, pc |-> "unloaded",
           via |-> Absent, to |-> Absent, name |-> Absent, callId |-> Absent,
           body |-> Absent, sends |-> <<>>, notifyCalls |-> 0, calls |-> 0]

\* constructor(): MailerSend needs config.email.mailerSendApiKey and the
\* service 'mailersend'; Gmail needs config.email.gmail.password.
ESConstruct(e) ==
  [ESNone EXCEPT
     !.mailerSend = Truthy(ConfigMailerSendApiKey(e))
                      /\ ConfigEmailService(e) = "mailersend",
     !.gmailTransporter = ConfigGmailPassword(e),
     !.pc = "idle"]

\* generateTranscriptHTML: ${transcript || 'No transcript available'}
ESBody(text) == IF Falsy(text) THEN "No transcript available" ELSE text

ESMessage(s, kind, ok) ==
  [kind |-> kind, via |-> s.via, to |-> s.to, callId |-> s.callId,
   body |-> IF kind = "transcript" THEN s.body ELSE Absent, ok |-> ok]

\* sendErrorNotification up to its `await send`; with no transport it sends
\* nothing and returns, and sendTranscriptEmail goes on to `throw error`.
ESNotify(s) ==
  LET s1 == [s EXCEPT !.notifyCalls = @ + 1] IN
  IF s.mailerSend THEN [s1 EXCEPT !.pc = "notify", !.via = "mailersend"]
  ELSE IF s.gmailTransporter THEN [s1 EXCEPT !.pc = "notify", !.via = "gmail"]
  ELSE [s1 EXCEPT !.pc = "raised", !.via = Absent]

\* catch (error) of sendTranscriptEmail: the Gmail backup is tried when both
\* transports exist and the failed send was not already the backup's.
ESCatch(s) ==
  IF s.mailerSend /\ s.gmailTransporter /\ s.pc = "primary"
  THEN [s EXCEPT !.pc = "backup", !.via = "gmail"]
  ELSE ESNotify(s)

\* sendTranscriptEmail(recipientEmail, recipientName, transcript, callData)
\* up to its first `await`
ESStart(s, to, name, text, callId) ==
  LET s1 == [s EXCEPT !.to = to, !.name = name, !.callId = callId,
                      !.body = ESBody(text), !.sends = <<>>,
                      !.notifyCalls = 0, !.calls = @ + 1, !.pc = "primary"] IN
  IF s.mailerSend THEN [s1 EXCEPT !.via = "mailersend"]
  ELSE IF s.gmailTransporter THEN [s1 EXCEPT !.via = "gmail"]
  ELSE ESNotify([s1 EXCEPT !.via = Absent])

\* variant: the `return` after a successful send is missing, so control
\* reaches `throw new Error('No email service configured')`
ESAfterSendNoReturn(s, ok) ==
  IF s.pc = "notify"
  THEN [s EXCEPT !.sends = Append(@, ESMessage(s, "error", ok)),
                 !.pc = "raised"]
  ELSE ESCatch([s EXCEPT !.sends = Append(@, ESMessage(s, "transcript", ok))])

\* the pending send settles
ESAfterSend(s, ok) ==
  IF s.pc = "notify"
  THEN [s EXCEPT !.sends = Append(@, ESMessage(s, "error", ok)),
                 !.pc = "raised"]
  ELSE LET s1 == [s EXCEPT !.sends = Append(@, ESMessage(s, "transcript", ok))]
       IN IF ok THEN [s1 EXCEPT !.pc = "returned"] ELSE ESCatch(s1)

ESCall(to, name, text, callId) ==
  /\ es.pc \in {"idle", "returned", "raised"}
  /\ es.calls < MaxESCalls
  /\ es' = ESStart(es, to, name, text, callId)
  /\ UNCHANGED <<env, transportMode, backoff>>
  /\ UNCHANGED serverVars

ESSendReturn(ok) ==
  /\ es.pc \in {"primary", "backup", "notify"}
  /\ ok \in SendOutcomes(es.via)
  /\ es' = ESAfterSend(es, ok)
  /\ UNCHANGED <<env, transportMode, backoff>>
  /\ UNCHANGED serverVars

\* ---------------------------------------------------- retryWithBackoff
MaxBackoffRetries == 4

\* retryWithBackoff = async (fn, maxRetries = 3, baseDelay = 1000)
DefaultBackoffRetries == 3
DefaultBaseDelay == 1000

\* An argument of the call: left out, or given with a value.
Omitted == [given |-> FALSE, value |-> 0]
Given(v) == [given |-> TRUE, value |-> v]
Param(a, default) == IF a.given THEN a.value ELSE default

BackoffRetryArgs == {Omitted} \cup {Given(n) : n \in 0 .. MaxBackoffRetries}
BackoffDelayArgs == {Omitted, Given(500)}

\* What a call of fn settles with: a value it resolves with or an error it
\* rejects with.
FnOutcomes ==
  {[ok |-> TRUE, v |-> r] : r \in {"r1", "r2"}} \cup
  {[ok |-> FALSE, v |-> e] : e \in {"e1", "e2"}}

BackoffNone ==
  [pc |-> "idle", maxRetries |-> 0, baseDelay |-> 0, attempt |-> 0,
   calls |-> 0, outcomes |-> << >>, waits |-> << >>, lastError |-> Absent,
   result |-> Absent, thrown |-> Absent]

\* variant: the first wait is already twice the base delay
BackoffDelayFromTwo(baseDelay, attempt) == baseDelay * 2 ^ attempt

\* const delay = baseDelay * Math.pow(2, attempt - 1)
BackoffDelay(baseDelay, attempt) == baseDelay * 2 ^ (attempt - 1)

\* entry: the loop starts at attempt = 1 and calls fn when
\* attempt <= maxRetries; otherwise the function falls off its end
BackoffStart(b, mr, bd) ==
  LET b1 == [b EXCEPT !.maxRetries = Param(mr, DefaultBackoffRetries),
                      !.baseDelay = Param(bd, DefaultBaseDelay),
                      !.attempt = 1] IN
  IF b1.attempt <= b1.maxRetries
  THEN [b1 EXCEPT !.pc = "calling", !.calls = @ + 1]
  ELSE [b1 EXCEPT !.pc = "returned"]

\* `return await fn()` and its catch
BackoffAfterFn(b, o) ==
  LET b1 == [b EXCEPT !.outcomes = Append(@, o)] IN
  IF o.ok THEN [b1 EXCEPT !.pc = "returned", !.result = o.v]
  ELSE LET b2 == [b1 EXCEPT !.lastError = o.v] IN
       IF b2.attempt = b2.maxRetries
       THEN [b2 EXCEPT !.pc = "threw", !.thrown = b2.lastError]
       ELSE [b2 EXCEPT !.pc = "waiting",
                       !.waits = Append(@, BackoffDelay(b2.baseDelay, b2.attempt))]

\* the timer resolves the awaited promise: attempt++, the loop test, fn()
BackoffAfterWait(b) ==
  LET b1 == [b EXCEPT !.attempt = @ + 1] IN
  IF b1.attempt <= b1.maxRetries
  THEN [b1 EXCEPT !.pc = "calling", !.calls = @ + 1]
  ELSE [b1 EXCEPT !.pc = "returned"]

BackoffCall(mr, bd) ==
  /\ backoff.pc = "idle"
  /\ backoff' = BackoffStart(backoff, mr, bd)
  /\ UNCHANGED <<env, transportMode, es>>
  /\ UNCHANGED serverVars

BackoffFnSettles(o) ==
  /\ backoff.pc = "calling"
  /\ backoff' = BackoffAfterFn(backoff, o)
  /\ UNCHANGED <<env, transportMode, es>>
  /\ UNCHANGED serverVars

BackoffTimerFire ==
  /\ backoff.pc = "waiting"
  /\ backoff' = BackoffAfterWait(backoff)
  /\ UNCHANGED <<env, transportMode, es>>
  /\ UNCHANGED serverVars

\* ------------------------------------------------------- specifications
\* A transport that is "up" accepts every send; a "flaky" one accepts or
\* rejects each send, which covers a transport that is down.
Modes == {"up", "flaky"}

ServerInit ==
  /\ callMap = << >>
  /\ issued = {}
  /\ registered = << >>
  /\ pendingInits = << >>
  /\ handlerPc = "idle"
  /\ suspended = << >>
  /\ last = NoExchange
  /\ chains = << >>

\* The server under every request shape and each e-mail service, with
\* MAX_TRANSCRIPT_RETRIES set to ServerRetries and transports that accept or
\* reject each send. The provider confirms one call, "c1"; webhooks name "c1"
\* or the never registered "c2".
Init ==
  /\ env \in [EMAIL_SERVICE : EnvServices,
               MAX_TRANSCRIPT_RETRIES : {ServerRetries},
               RETRY_DELAY_MS : {-1}, GMAIL_PASS : {TRUE}]
  /\ transportMode = [t \in Transports |-> "flaky"]
  /\ ServerInit
  /\ es = ESNone
  /\ backoff = BackoffNone

Next ==
  \/ \E b \in InitBodies : InitiateReceive(b)
  \/ \E i \in DOMAIN pendingInits, t \in Times : InitiateCreated(i, "c1", t)
  \/ \E i \in DOMAIN pendingInits : InitiateFailed(i)
  \/ \E p \in Payloads : WebhookReceive(p)
  \/ WebhookResume
  \/ \E i \in DOMAIN chains, r \in FetchResults : ChainFetchReturn(i, r)
  \/ \E i \in DOMAIN chains : ChainTimerFire(i)
  \/ \E i \in DOMAIN chains, ok \in BOOLEAN : ChainSendReturn(i, ok)
  \/ \E i \in DOMAIN chains, ok \in BOOLEAN : ChainNotifyReturn(i, ok)

Spec == Init /\ [][Next]_vars

\* One call under every configuration: each e-mail service, the default and
\* the configured attempt ceilings, each transport up or flaky.
ChainInit ==
  /\ env \in Envs
  /\ transportMode \in [Transports -> Modes]
  /\ ServerInit
  /\ es = ESNone
  /\ backoff = BackoffNone

ChainBodies ==
  {b \in InitBodies : b.phone # Absent /\ b.email # ""}

ChainPayloads ==
  {p \in Payloads : p.call_id = "c1" /\ p.event = "call_ended"
                    /\ p.end_timestamp # Absent}

ChainNext ==
  \/ \E b \in ChainBodies : InitiateReceive(b)
  \/ \E i \in DOMAIN pendingInits : InitiateCreated(i, "c1", "T1")
  \/ \E i \in DOMAIN pendingInits : InitiateFailed(i)
  \/ \E p \in ChainPayloads : WebhookReceive(p)
  \/ WebhookResume
  \/ \E i \in DOMAIN chains, r \in FetchResults : ChainFetchReturn(i, r)
  \/ \E i \in DOMAIN chains : ChainTimerFire(i)
  \/ \E i \in DOMAIN chains, ok \in BOOLEAN : ChainSendReturn(i, ok)
  \/ \E i \in DOMAIN chains, ok \in BOOLEAN : ChainNotifyReturn(i, ok)

SpecChain == ChainInit /\ [][ChainNext]_vars

\* Every provider fetch and every send eventually settles, every scheduled
\* timer eventually fires, and a handler's continuation eventually runs.
ChainFairness ==
  /\ WF_vars(WebhookResume)
  /\ WF_vars(\E i \in DOMAIN chains, r \in FetchResults : ChainFetchReturn(i, r))
  /\ WF_vars(\E i \in DOMAIN chains : ChainTimerFire(i))
  /\ WF_vars(\E i \in DOMAIN chains, ok \in BOOLEAN : ChainSendReturn(i, ok))
  /\ WF_vars(\E i \in DOMAIN chains, ok \in BOOLEAN : ChainNotifyReturn(i, ok))

SpecChainFair == ChainInit /\ [][ChainNext]_vars /\ ChainFairness

\* Redelivered and pipelined call_ended events for one registered call:
\* SendGrid as the transport, accepting or rejecting each send.
RaceInit ==
  /\ env = [EMAIL_SERVICE |-> "sendgrid",
            MAX_TRANSCRIPT_RETRIES |-> ServerRetries,
            RETRY_DELAY_MS |-> -1, GMAIL_PASS |-> TRUE]
  /\ transportMode = [t \in Transports |-> "flaky"]
  /\ ServerInit
  /\ es = ESNone
  /\ backoff = BackoffNone

RaceBodies == {b \in InitBodies : b.name # Absent /\ InitiationValid(b)}

RacePayloads ==
  {p \in Payloads : p.call_id = "c1" /\ p.event = "call_ended"}

RaceFetches ==
  {r \in FetchResults : r.transcript.type \in {"undefined", "string"}}

RaceNext ==
  \/ \E b \in RaceBodies : InitiateReceive(b)
  \/ \E i \in DOMAIN pendingInits : InitiateCreated(i, "c1", "T1")
  \/ \E i \in DOMAIN pendingInits : InitiateFailed(i)
  \/ \E p \in RacePayloads : WebhookReceive(p)
  \/ \E p \in RacePayloads : WebhookPipelined(p)
  \/ WebhookResume
  \/ \E i \in DOMAIN chains, r \in RaceFetches : ChainFetchReturn(i, r)
  \/ \E i \in DOMAIN chains : ChainTimerFire(i)
  \/ \E i \in DOMAIN chains, ok \in BOOLEAN : ChainSendReturn(i, ok)
  \/ \E i \in DOMAIN chains, ok \in BOOLEAN : ChainNotifyReturn(i, ok)

SpecRace == RaceInit /\ [][RaceNext]_vars

\* One call under every setting of the two retry variables, with SendGrid as
\* the transport.
DelayInit ==
  /\ env \in [EMAIL_SERVICE : {"sendgrid"},
               MAX_TRANSCRIPT_RETRIES : EnvRetries \cup {0},
               RETRY_DELAY_MS : EnvDelays, GMAIL_PASS : {TRUE}]
  /\ transportMode = [t \in Transports |-> "flaky"]
  /\ ServerInit
  /\ es = ESNone
  /\ backoff = BackoffNone

DelayPayloads ==
  {p \in RacePayloads : p.call_status = "ended" /\ p.end_timestamp # Absent
                        /\ p.disconnection_reason = "user_hangup"}

DelayNext ==
  \/ \E b \in RaceBodies : InitiateReceive(b)
  \/ \E i \in DOMAIN pendingInits : InitiateCreated(i, "c1", "T1")
  \/ \E i \in DOMAIN pendingInits : InitiateFailed(i)
  \/ \E p \in DelayPayloads : WebhookReceive(p)
  \/ WebhookResume
  \/ \E i \in DOMAIN chains, r \in RaceFetches : ChainFetchReturn(i, r)
  \/ \E i \in DOMAIN chains : ChainTimerFire(i)
  \/ \E i \in DOMAIN chains, ok \in BOOLEAN : ChainSendReturn(i, ok)
  \/ \E i \in DOMAIN chains, ok \in BOOLEAN : ChainNotifyReturn(i, ok)

SpecDelay == DelayInit /\ [][DelayNext]_vars

\* Two calls, registered for different recipients, each with its completed
\* call_ended event and its own retrieval chain.
TwoBodies == {b \in InitBodies : InitiationValid(b)}

TwoPayloads ==
  {p \in Payloads : p.event = "call_ended" /\ p.call_id \in CallIds
                    /\ p.call_status = "ended" /\ p.end_timestamp # Absent
                    /\ p.disconnection_reason = "user_hangup"}

TwoNext ==
  \/ \E b \in TwoBodies : InitiateReceive(b)
  \/ \E i \in DOMAIN pendingInits, id \in CallIds : InitiateCreated(i, id, "T1")
  \/ \E i \in DOMAIN pendingInits : InitiateFailed(i)
  \/ \E p \in TwoPayloads : WebhookReceive(p)
  \/ WebhookResume
  \/ \E i \in DOMAIN chains, r \in RaceFetches : ChainFetchReturn(i, r)
  \/ \E i \in DOMAIN chains : ChainTimerFire(i)
  \/ \E i \in DOMAIN chains, ok \in BOOLEAN : ChainSendReturn(i, ok)
  \/ \E i \in DOMAIN chains, ok \in BOOLEAN : ChainNotifyReturn(i, ok)

SpecTwo == RaceInit /\ [][TwoNext]_vars

\* The registry under initiations of two calls and every webhook that starts
\* no retrieval chain.
RegPayloads ==
  {p \in Payloads : \/ p.event # "call_ended"
                    \/ ~p.hasCall
                    \/ p.call_id \in {Absent, ""}
                    \/ p.call_status # "ended"
                    \/ p.end_timestamp = Absent}

RegNext ==
  \/ \E b \in InitBodies : InitiateReceive(b)
  \/ \E i \in DOMAIN pendingInits, id \in CallIds, t \in Times :
        InitiateCreated(i, id, t)
  \/ \E i \in DOMAIN pendingInits : InitiateFailed(i)
  \/ \E p \in RegPayloads : WebhookReceive(p)

SpecReg == RaceInit /\ [][RegNext]_vars

\* The registry under initiations of two calls, every webhook and the
\* retrieval chains they start, each finding its transcript at once.
FrameBodies == {b \in InitBodies : b.email \in {"ann@x.com", "bob@x.com"}}

\* the provider has the transcript at the first fetch
FrameFetches == {r \in FetchResults : ~r.threw /\ r.transcript.type = "object"}

FrameNext ==
  \/ \E b \in FrameBodies : InitiateReceive(b)
  \/ \E i \in DOMAIN pendingInits, id \in CallIds : InitiateCreated(i, id, "T1")
  \/ \E i \in DOMAIN pendingInits : InitiateFailed(i)
  \/ \E p \in Payloads : WebhookReceive(p)
  \/ WebhookResume
  \/ \E i \in DOMAIN chains, r \in FrameFetches : ChainFetchReturn(i, r)
  \/ \E i \in DOMAIN chains, ok \in BOOLEAN : ChainSendReturn(i, ok)
  \/ \E i \in DOMAIN chains, ok \in BOOLEAN : ChainNotifyReturn(i, ok)

SpecFrame == RaceInit /\ [][FrameNext]_vars

\* One call of retryWithBackoff, over its arguments and what fn does.
BackoffNext ==
  \/ \E mr \in BackoffRetryArgs, bd \in BackoffDelayArgs : BackoffCall(mr, bd)
  \/ \E o \in FnOutcomes : BackoffFnSettles(o)
  \/ BackoffTimerFire

SpecBackoff == RaceInit /\ [][BackoffNext]_vars

ESInit ==
  /\ env \in [EMAIL_SERVICE : ESEnvServices, MAX_TRANSCRIPT_RETRIES : {-1},
              RETRY_DELAY_MS : {-1},
              GMAIL_PASS : BOOLEAN]
  /\ transportMode \in [ESTransports -> Modes]
  /\ ServerInit
  /\ es = ESConstruct(env)
  /\ backoff = BackoffNone

ESNext ==
  \/ \E to \in {"ann@x.com", "bob@x.com"}, name \in {"Ann"}, text \in ESTexts,
        id \in CallIds : ESCall(to, name, text, id)
  \/ \E ok \in BOOLEAN : ESSendReturn(ok)

SpecES == ESInit /\ [][ESNext]_vars

\* ---------------------------------------------------------------- claims
\* The last exchange is a webhook whose envelope has event, call and
\* call.call_id, each non-empty.
WellFormed(x) ==
  x.route = "webhook" /\ Truthy(x.event) /\ x.hasCall /\ Truthy(x.call_id)

\* ... and reports a completed call: call_ended, status "ended", end_timestamp
CompletedEvent(x) ==
  /\ WellFormed(x)
  /\ x.event = "call_ended"
  /\ x.call_status = "ended"
  /\ Truthy(x.end_timestamp)

ChainsOf(id) == {i \in DOMAIN chains : chains[i].callId = id}

OkSends(c) == {j \in DOMAIN c.sends : c.sends[j].ok}

Terminal(c) == c.pc = "done"

\* C1: a call_ended event with call_status "ended" and an end_timestamp, for a
\* call id that has a registry record, starts the retrieval chain exactly
\* once: the handler starts one chain, for that call id, and no other chain
\* for that call id exists.
C1_RetrievalInvokedOnce ==
  (CompletedEvent(last) /\ last.hadRecord) =>
     /\ last.started = 1
     /\ last.chain \in DOMAIN chains
     /\ ChainsOf(last.call_id) = {last.chain}

C1_Witness ==
  /\ CompletedEvent(last) /\ last.hadRecord /\ last.status = 200
  /\ last.chain \in DOMAIN chains
  /\ chains[last.chain].email = "bob@x.com"

\* C2: for a completed call the registry entry is deleted only after the
\* retrieval chain has reached its terminal outcome: once the handler has
\* deleted the entry and answered, the chain it started is finished.
C2_DeleteAfterProcessing ==
  (CompletedEvent(last) /\ last.started = 1 /\ last.status # 0
     /\ last.call_id \notin DOMAIN callMap) =>
     Terminal(chains[last.chain])

\* C3: a chain whose every fetch returned an absent or empty transcript, none
\* throwing, has made exactly maxRetries fetches when it stops, has invoked
\* the failure notification exactly once and the transcript delivery never;
\* while it waits for a retry it has made fewer than maxRetries fetches.
C3_ExhaustedRetries ==
  \A i \in DOMAIN chains :
    LET c == chains[i] IN
    (~c.threw /\ c.empties = c.fetches) =>
       /\ c.pc \in {"timer", "notifying", "done"}
       /\ c.pc = "timer" => c.fetches < maxRetries /\ c.errorCalls = 0
       /\ c.pc \in {"notifying", "done"} =>
            c.fetches = maxRetries /\ c.errorCalls = 1
       /\ c.deliveries = 0
       /\ \A j \in DOMAIN c.sends : c.sends[j].kind = "error"

C3_Witness ==
  \E i \in DOMAIN chains :
    /\ Terminal(chains[i]) /\ ~chains[i].threw
    /\ chains[i].empties = chains[i].fetches
    /\ chains[i].fetches = DefaultMaxRetries
    /\ Len(chains[i].sends) = 1

\* The text a transcript is delivered as: a string as it is, an object as
\* its JSON text.
Delivered(t) == IF t.type = "string" THEN t.text ELSE "[\"" \o t.text \o "\"]"

GotTranscript(c) ==
  c.fetched.type = "object" \/ (c.fetched.type = "string" /\ c.fetched.text # "")

DeliverySucceeded(c) ==
  c.logged \/ \E j \in DOMAIN c.sends :
                 c.sends[j].kind = "transcript" /\ c.sends[j].ok

\* C4: a chain that got empty transcripts on attempts 1..k-1 and a non-empty
\* one on attempt k (k <= maxRetries) has made exactly k fetches, fetches no
\* more, has invoked the delivery exactly once with that transcript, and has
\* not invoked the failure notification when the delivery succeeded.
C4_DeliversOnAttemptK ==
  \A i \in DOMAIN chains :
    LET c == chains[i] IN
    (GotTranscript(c) /\ ~c.threw) =>
       /\ c.fetches = c.empties + 1
       /\ c.fetches <= maxRetries
       /\ c.pc \in {"sending", "notifying", "done"}
       /\ c.deliveries = 1
       /\ c.body = Delivered(c.fetched)
       /\ \A j \in DOMAIN c.sends :
            c.sends[j].kind = "transcript" =>
              j = 1 /\ c.sends[j].body = Delivered(c.fetched)
       /\ DeliverySucceeded(c) => c.errorCalls = 0 /\ Terminal(c)

C4_Witness ==
  \E i \in DOMAIN chains :
    /\ Terminal(chains[i]) /\ chains[i].fetched.type = "object"
    /\ maxRetries = DefaultMaxRetries
    /\ chains[i].fetches = 3 /\ chains[i].empties = 2
    /\ Len(chains[i].sends) = 1 /\ chains[i].sends[1].ok

\* C5: a chain one of whose fetches threw has invoked the failure
\* notification exactly once, at once, and schedules and fetches nothing
\* more, whatever retry budget is left.
C5_FetchThrowIsTerminal ==
  \A i \in DOMAIN chains :
    LET c == chains[i] IN
    c.threw =>
       /\ c.pc \in {"notifying", "done"}
       /\ c.errorCalls = 1
       /\ c.fetches = c.empties + 1
       /\ c.deliveries = 0

C5_Witness ==
  \E i \in DOMAIN chains :
    /\ chains[i].threw /\ Terminal(chains[i])
    /\ chains[i].fetches = 2 /\ maxRetries = DefaultMaxRetries

\* C6: a webhook whose envelope has event, call and call.call_id is answered
\* 200, never 400 or 500, whatever the event and whatever becomes of the
\* fetches, the delivery and the failure notification.
C6_ValidPayloadAcknowledged ==
  (WellFormed(last) /\ last.status # 0) => last.status = 200

C6_Witness ==
  /\ CompletedEvent(last) /\ last.status = 200 /\ last.started = 1
  /\ Terminal(chains[last.chain])
  /\ chains[last.chain].errorCalls = 1
  /\ OkSends(chains[last.chain]) = {}

\* C7: a webhook in which event, call or call.call_id is absent is answered
\* 400, leaves the registry as it was and starts no retrieval chain.
C7_MalformedPayloadRejected ==
  [][(last' # last /\ last'.route = "webhook" /\ ~WellFormed(last')) =>
       /\ last'.status = 400
       /\ callMap' = callMap
       /\ chains' = chains
       /\ handlerPc' = "idle"]_vars

C7_Witness ==
  /\ last.route = "webhook" /\ Falsy(last.event) /\ last.call_id = "c1"
  /\ last.status = 400 /\ last.hadRecord
  /\ "c1" \in DOMAIN callMap

\* C8: a call_ended event whose call_status is not "ended" or whose
\* end_timestamp is absent starts no retrieval chain and sends no e-mail, and
\* after the handler the registry has no entry for that call id.
C8_FailedCallCleanedUp ==
  [][(last' # last /\ WellFormed(last') /\ last'.event = "call_ended"
        /\ (last'.call_status # "ended" \/ Falsy(last'.end_timestamp))) =>
       /\ chains' = chains
       /\ handlerPc' = "idle"
       /\ last'.started = 0
       /\ last'.call_id \notin DOMAIN callMap'
       /\ \A k \in DOMAIN callMap \ {last'.call_id} :
            k \in DOMAIN callMap' /\ callMap'[k] = callMap[k]]_vars

C8_Witness ==
  /\ WellFormed(last) /\ last.event = "call_ended"
  /\ last.call_status = "ended" /\ Falsy(last.end_timestamp)
  /\ last.hadRecord /\ last.status = 200
  /\ last.call_id \notin DOMAIN callMap
  /\ chains = << >>

\* C9: when the primary transport fails on the transcript message and the
\* configured backup transport succeeds, exactly one message is sent, the
\* transcript through the backup, and the degraded notification is not
\* invoked. The server's primary is SendGrid and its backup Gmail.
C9_BackupDelivers ==
  \A i \in DOMAIN chains :
    LET c == chains[i] IN
    (/\ Terminal(c)
     /\ emailService = "sendgrid"
     /\ ConfigGmailPassword(env) /\ transportMode["gmail"] = "up"
     /\ \E j \in DOMAIN c.sends :
          c.sends[j].kind = "transcript" /\ c.sends[j].via = "sendgrid"
            /\ ~c.sends[j].ok) =>
       /\ c.errorCalls = 0
       /\ Cardinality(OkSends(c)) = 1
       /\ \E j \in OkSends(c) :
            c.sends[j].kind = "transcript" /\ c.sends[j].via = "gmail"

\* C10: when every transport sendTranscriptEmail can use fails on the
\* transcript message, the degraded notification is invoked exactly once and
\* the call returns without raising an error to its caller.
C10_AbsorbsDeliveryFailure ==
  (/\ es.pc \in {"returned", "raised"}
   /\ es.calls > 0
   /\ es.sends # << >>
   /\ \A j \in DOMAIN es.sends :
        es.sends[j].kind = "transcript" => ~es.sends[j].ok) =>
     es.notifyCalls = 1 /\ es.pc = "returned"

\* C11: two completed call_ended events for the same registered call id whose
\* handlers both run their lookup before either deletes the entry each start
\* a retrieval chain of their own: nothing makes the second handler skip a
\* call id that is already being processed, and each chain that gets a
\* transcript delivers it.
C11_NoDuplicateGuard ==
  /\ \A j, k \in DOMAIN suspended :
       /\ suspended[j].chain \in DOMAIN chains
       /\ chains[suspended[j].chain].callId = suspended[j].call_id
       /\ j # k => suspended[j].chain # suspended[k].chain
  /\ (handlerPc = "awaiting" /\ CompletedEvent(last) /\ last.hadRecord) =>
       /\ last.started = 1
       /\ Cardinality(ChainsOf(last.call_id)) >= Len(suspended)
  /\ \A i \in DOMAIN chains :
       (chains[i].fetched.type = "string" /\ chains[i].fetched.text # "") =>
          chains[i].deliveries = 1

C11_Witness ==
  \E i, j \in DOMAIN chains :
    /\ i # j
    /\ chains[i].callId = "c1" /\ chains[j].callId = "c1"
    /\ Terminal(chains[i]) /\ Terminal(chains[j])
    /\ Len(chains[i].sends) = 1 /\ Len(chains[j].sends) = 1
    /\ chains[i].sends[1].kind = "transcript" /\ chains[i].sends[1].ok
    /\ chains[j].sends[1].kind = "transcript" /\ chains[j].sends[1].ok
    /\ chains[i].sends[1].to = chains[j].sends[1].to
    /\ last.status = 200 /\ "c1" \notin DOMAIN callMap

\* every e-mail sent for a call id: <<chain, position in its sends>>
Emails(id) ==
  UNION {{<<i, j>> : j \in DOMAIN chains[i].sends} : i \in ChainsOf(id)}

\* C12: after a successful initiation with call id c and e-mail e and one
\* completed call_ended event for c, with the transcript there on the first
\* fetch and the transport accepting the message, exactly one e-mail has
\* been sent in all: to e, carrying c and the fetched transcript, and the
\* registry no longer holds c.
C12_EndToEnd ==
  \A i \in DOMAIN chains :
    LET c == chains[i] IN
    (/\ Terminal(c)
     /\ ChainsOf(c.callId) = {i}
     /\ c.fetches = 1 /\ GotTranscript(c)
     /\ c.sends # << >> /\ c.sends[1].ok) =>
       /\ Emails(c.callId) = {<<i, 1>>}
       /\ c.sends[1].kind = "transcript"
       /\ c.callId \in DOMAIN registered
       /\ c.sends[1].to = registered[c.callId].body.email
       /\ c.sends[1].callId = c.callId
       /\ c.sends[1].body = Delivered(c.fetched)
       /\ c.callId \notin DOMAIN callMap

C12_Witness ==
  \E i \in DOMAIN chains :
    /\ Terminal(chains[i]) /\ chains[i].fetches = 1
    /\ chains[i].callId = "c1"
    /\ chains[i].sends = << [kind |-> "transcript", via |-> "gmail",
                             to |-> "ann@x.com", callId |-> "c1",
                             body |-> "Hello Ann", ok |-> TRUE] >>
    /\ callMap = << >>

InitiationAnswered(x, status) == x.route = "initiate" /\ x.status = status

\* C13: a lookup of a call id right after its insertion returns the record
\* that was inserted, field for field: the name, phone and e-mail of the
\* request and the creation time.
C13_LookupAfterInsert ==
  InitiationAnswered(last, 200) =>
     /\ last.callId \in DOMAIN callMap
     /\ last.callId \in DOMAIN registered
     /\ callMap[last.callId] =
          [email |-> last.email, name |-> last.name, phone |-> last.phone,
           timestamp |-> registered[last.callId].time]

C13_Witness ==
  /\ InitiationAnswered(last, 200)
  /\ last.callId = "c2" /\ last.name = Absent
  /\ callMap["c2"].timestamp = "T2"
  /\ "c1" \in DOMAIN callMap

\* C14: a successful initiation inserts exactly one record, under the call
\* id the provider returned, and answers 200 with that id; every other
\* registry entry stays as it was; and while the provider has not confirmed,
\* the request inserts nothing.
C14_InitiationRegisters ==
  [][/\ (last' # last /\ InitiationAnswered(last', 200)) =>
          /\ issued' = issued \cup {last'.callId}
          /\ last'.callId \notin issued
          /\ DOMAIN callMap' = DOMAIN callMap \cup {last'.callId}
          /\ \A k \in DOMAIN callMap \ {last'.callId} :
               callMap'[k] = callMap[k]
          /\ callMap'[last'.callId].email = last'.email
          /\ Len(pendingInits') = Len(pendingInits) - 1
     /\ (last' # last /\ InitiationAnswered(last', 0)) =>
          /\ callMap' = callMap
          /\ Len(pendingInits') = Len(pendingInits) + 1]_vars

C14_Witness ==
  /\ InitiationAnswered(last, 200)
  /\ last.callId = "c2"
  /\ DOMAIN callMap = {"c1", "c2"}
  /\ callMap["c1"].email # callMap["c2"].email

\* C15: an initiation request without a phone or without an e-mail is
\* answered 400: the provider is not called, the registry is unchanged and
\* nothing is retried.
C15_InitiationValidated ==
  [][(last' # last /\ last'.route = "initiate"
        /\ (Falsy(last'.phone) \/ Falsy(last'.email))) =>
       /\ last'.status = 400
       /\ pendingInits' = pendingInits
       /\ callMap' = callMap
       /\ issued' = issued
       /\ chains' = chains]_vars

C15_Witness ==
  /\ InitiationAnswered(last, 400)
  /\ last.email = "" /\ Truthy(last.phone)
  /\ "c1" \in DOMAIN callMap

\* C16: when the provider's call creation fails, the request is answered
\* 500, no record is inserted and the creation is not submitted again.
C16_ProviderFailure ==
  [][(last' # last /\ InitiationAnswered(last', 500)) =>
       /\ callMap' = callMap
       /\ issued' = issued
       /\ registered' = registered
       /\ chains' = chains
       /\ Len(pendingInits') = Len(pendingInits) - 1]_vars

C16_Witness ==
  /\ InitiationAnswered(last, 500)
  /\ pendingInits = << >>
  /\ "c1" \in DOMAIN callMap

\* C17: a webhook event that is not call_ended (call_started, call_analyzed
\* or any other name) is acknowledged with 200, leaves the registry
\* unchanged, starts no retrieval chain and sends no e-mail.
C17_OtherEventsInformational ==
  [][(last' # last /\ WellFormed(last') /\ last'.event # "call_ended") =>
       /\ last'.status = 200
       /\ callMap' = callMap
       /\ chains' = chains
       /\ suspended' = suspended
       /\ handlerPc' = "idle"]_vars

C17_Witness ==
  /\ WellFormed(last) /\ last.event = "call_analyzed"
  /\ last.call_status = "ended" /\ Truthy(last.end_timestamp)
  /\ last.status = 200 /\ last.hadRecord
  /\ last.call_id \in DOMAIN callMap
  /\ chains = << >>

\* C18: a completed call_ended event for a call id the registry has no record
\* of is a no-op acknowledged with 200: no retrieval chain is started, no
\* e-mail is sent and the registry is unchanged.
C18_LookupMissIsNoOp ==
  [][(last' # last /\ CompletedEvent(last')
        /\ last'.call_id \notin DOMAIN callMap) =>
       /\ last'.status = 200
       /\ callMap' = callMap
       /\ chains' = chains
       /\ suspended' = suspended
       /\ handlerPc' = "idle"]_vars

C18_Witness ==
  /\ CompletedEvent(last) /\ ~last.hadRecord /\ last.status = 200
  /\ last.call_id = "c1" /\ "c1" \in issued
  /\ Len(chains) = 1

\* C19: deleting a call id the registry does not hold changes nothing in the
\* registry and raises no error: the delete itself, the handler continuation
\* that deletes an entry already gone, and the clean-up of a failed call
\* that has no entry, each answered 200.
C19_DeleteMissingIsNoOp ==
  /\ [](\A id \in CallIds \ DOMAIN callMap : MapDelete(callMap, id) = callMap)
  /\ [][(suspended # << >> /\ suspended' = Tail(suspended)
           /\ Head(suspended).call_id \notin DOMAIN callMap) =>
          callMap' = callMap /\ last'.status = 200]_vars
  /\ [][(last' # last /\ WellFormed(last') /\ last'.event = "call_ended"
           /\ ~CompletedEvent(last')
           /\ last'.call_id \notin DOMAIN callMap) =>
          callMap' = callMap /\ last'.status = 200]_vars

C19_Witness ==
  /\ Len(chains) = 2 /\ suspended = << >>
  /\ chains[1].pc = "fetching" /\ chains[2].pc = "fetching"
  /\ last.status = 200 /\ last.chain = 2
  /\ "c1" \notin DOMAIN callMap

\* C20: within one retrieval chain a further fetch starts only when the
\* retry timer fires, and that timer was scheduled when the previous attempt
\* found the transcript empty: two fetches of a chain are always separated
\* by the timer.
C20_FetchAfterTimer ==
  [][\A i \in DOMAIN chains :
       LET c == chains[i]
           d == chains'[i]
       IN /\ d.fetches > c.fetches =>
               /\ c.pc = "timer" /\ d.pc = "fetching"
               /\ d.fetches = c.fetches + 1
               /\ c.empties = c.fetches
          /\ (c.pc # "timer" /\ d.pc = "timer") =>
               /\ c.pc = "fetching"
               /\ d.empties = c.empties + 1
               /\ d.fetches = c.fetches
          /\ (c.pc # "fetching") => (d.pc = "fetching" => c.pc = "timer")]_vars

C20_Witness ==
  \E i \in DOMAIN chains :
    /\ chains[i].pc = "fetching" /\ chains[i].fetches = 3
    /\ chains[i].empties = 2 /\ chains[i].retryCount = 2

\* C21: retry scheduling does not block: the handler that started a chain is
\* never held at its `await` (its continuation can always run, and it runs
\* while the chain is still on its first fetch), and while a chain waits for
\* its retry timer the process accepts further webhooks and initiations.
C21_RetryNonBlocking ==
  /\ handlerPc = "awaiting" => ENABLED WebhookResume
  /\ (last.route = "webhook" /\ last.started = 1 /\ last.status = 0) =>
       /\ chains[last.chain].pc = "fetching"
       /\ chains[last.chain].fetches = 1
       /\ chains[last.chain].retryCount = 0
  /\ \A i \in DOMAIN chains :
       chains[i].pc = "timer" =>
         /\ handlerPc = "idle"
         /\ \A p \in Payloads : ENABLED WebhookReceive(p)
         /\ \A b \in InitBodies :
              (~InitiationValid(b) \/ Len(pendingInits) < MaxPending) =>
                 ENABLED InitiateReceive(b)

C21_Witness ==
  /\ Len(chains) = 1 /\ chains[1].pc = "timer" /\ chains[1].retryCount = 1
  /\ last.route = "webhook" /\ last.event = "call_started"
  /\ last.status = 200
  /\ pendingInits # << >>

FailedNotifications(c) ==
  {j \in DOMAIN c.sends : c.sends[j].kind = "error" /\ ~c.sends[j].ok}

\* C22: a failure while sending the failure notification is swallowed: the
\* chain is finished, nothing is sent or retried after the failed
\* notification, the notification was invoked once, and the webhook is not
\* answered with an error.
C22_NotificationFailureSwallowed ==
  /\ \A i \in DOMAIN chains :
       LET c == chains[i] IN
       FailedNotifications(c) # {} =>
          /\ Terminal(c)
          /\ FailedNotifications(c) = {Len(c.sends)}
          /\ c.errorCalls = 1
  /\ (last.route = "webhook" /\ last.started = 1) => last.status \in {0, 200}

C22_Witness ==
  \E i \in DOMAIN chains :
    /\ Terminal(chains[i])
    /\ Len(chains[i].sends) = 2
    /\ chains[i].sends[1].kind = "transcript" /\ ~chains[i].sends[1].ok
    /\ chains[i].sends[2].kind = "error" /\ ~chains[i].sends[2].ok
    /\ last.status = 200

\* C23: a successful send of the transcript message ends
\* sendTranscriptEmail: it is the last message of the call, the call returns
\* and the degraded notification is not invoked.
C23_SuccessEndsPipeline ==
  \A j \in DOMAIN es.sends :
    (es.sends[j].kind = "transcript" /\ es.sends[j].ok) =>
       /\ j = Len(es.sends)
       /\ es.pc = "returned"
       /\ es.notifyCalls = 0

C23_Witness ==
  /\ es.pc = "returned" /\ es.calls = 2
  /\ Len(es.sends) = 1
  /\ es.sends[1].kind = "transcript" /\ es.sends[1].via = "gmail"
  /\ es.sends[1].ok

\* C24: the retry loop is bounded: a chain never makes more fetches than the
\* configured maximum attempt count, and its retry counter never exceeds it.
C24_RetryBounded ==
  \A i \in DOMAIN chains :
    /\ chains[i].fetches <= maxRetries
    /\ chains[i].retryCount <= maxRetries
    /\ chains[i].fetches <= chains[i].retryCount + 1

C24_Witness ==
  \E i \in DOMAIN chains :
    /\ maxRetries = 2
    /\ chains[i].fetches = 2 /\ chains[i].retryCount = 2
    /\ chains[i].pc = "notifying"

Outcome(c) == Terminal(c) /\ (DeliverySucceeded(c) \/ c.errorCalls = 1)

\* C25: once started, a retrieval chain reaches a terminal outcome, the
\* transcript delivered or the failure notification invoked, provided every
\* fetch and send settles and every timer fires; and no step of anything
\* else (a webhook, an initiation, the deletion of the registry entry)
\* touches a chain: a chain waiting for its timer keeps waiting until the
\* timer fires.
C25_ChainTerminates ==
  /\ (1 \in DOMAIN chains) ~> (1 \in DOMAIN chains /\ Outcome(chains[1]))
  /\ [][\A i \in DOMAIN chains :
          /\ i \in DOMAIN chains'
          /\ (last' # last \/ callMap' # callMap) => chains'[i] = chains[i]
          /\ (chains[i].pc = "timer" /\ chains'[i] # chains[i]) =>
               chains'[i] = [chains[i] EXCEPT !.pc = "fetching",
                                              !.fetches = @ + 1]]_vars

C25_Witness ==
  /\ 1 \in DOMAIN chains /\ Outcome(chains[1])
  /\ chains[1].fetches = DefaultMaxRetries /\ chains[1].errorCalls = 1
  /\ last.route = "webhook" /\ last.started = 0 /\ last.status = 200
  /\ last.call_id = "c1"

\* C26: a registry record is changed only by its deletion: from its insertion
\* until its entry is deleted, the entry of a call id holds the field values
\* it was inserted with, whatever initiations and webhooks are handled.
C26_RecordImmutable ==
  /\ [](\A id \in DOMAIN callMap :
          /\ id \in DOMAIN registered
          /\ callMap[id].email = registered[id].body.email
          /\ callMap[id].name = registered[id].body.name
          /\ callMap[id].phone = registered[id].body.phone
          /\ callMap[id].timestamp = registered[id].time)
  /\ [][\A id \in DOMAIN callMap :
          id \in DOMAIN callMap' => callMap'[id] = callMap[id]]_vars

C26_Witness ==
  /\ DOMAIN callMap = {"c1"} /\ "c2" \in issued
  /\ callMap["c1"].email = "ann@x.com" /\ callMap["c1"].timestamp = "T2"
  /\ registered["c2"].body.email = "bob@x.com"
  /\ last.route = "webhook" /\ last.call_id = "c2" /\ last.hadRecord

SuccessfulDisconnections == {"user_hangup", "agent_hangup"}

\* C27: a call_ended event starts the transcript retrieval only when the
\* call has status "ended", a successful disconnection and an end timestamp:
\* an event whose disconnection reason reports an unsuccessful disconnection
\* starts no retrieval chain.
C27_OnlySuccessfulDisconnection ==
  (last.route = "webhook" /\ last.event = "call_ended"
     /\ last.disconnection_reason \notin SuccessfulDisconnections) =>
     last.started = 0

Unset(v) == v \in {-1, 0}

C29_AddressedToRegistrant ==
  \A i \in DOMAIN chains :
    LET c == chains[i] IN
    /\ c.callId \in DOMAIN registered
    /\ c.email = registered[c.callId].body.email
    /\ \A j \in DOMAIN c.sends :
         /\ c.sends[j].to = registered[c.callId].body.email
         /\ c.sends[j].callId = c.callId
         /\ \A k \in DOMAIN registered \ {c.callId} :
              registered[k].body.email # registered[c.callId].body.email =>
                 c.sends[j].to # registered[k].body.email

C29_Witness ==
  /\ Len(chains) = 2
  /\ chains[1].callId = "c1" /\ chains[2].callId = "c2"
  /\ Terminal(chains[1]) /\ Terminal(chains[2])
  /\ Len(chains[1].sends) = 2 /\ chains[1].sends[2].kind = "error"
  /\ chains[1].sends[1].to = "bob@x.com"
  /\ Len(chains[2].sends) = 1 /\ chains[2].sends[1].kind = "transcript"
  /\ chains[2].sends[1].to = "ann@x.com"
  /\ chains[1].retryCount = 1
  /\ callMap = << >>

TranscriptSends(c) == {j \in DOMAIN c.sends : c.sends[j].kind = "transcript"}

NotificationSends(c) == {j \in DOMAIN c.sends : c.sends[j].kind = "error"}

\* C30: a retrieval chain makes at most one transcript delivery attempt and
\* invokes the failure notification at most once, and never has both a
\* successful transcript delivery and a failure notification, whatever the
\* fetches return or throw and whatever the sends do.
C30_AtMostOneOutcome ==
  \A i \in DOMAIN chains :
    LET c == chains[i] IN
    /\ c.deliveries <= 1
    /\ c.errorCalls <= 1
    /\ Cardinality(TranscriptSends(c)) <= c.deliveries
    /\ Cardinality(NotificationSends(c)) <= c.errorCalls
    /\ ~(DeliverySucceeded(c) /\ c.errorCalls > 0)

C30_Witness ==
  \E i \in DOMAIN chains :
    /\ Terminal(chains[i])
    /\ chains[i].deliveries = 1 /\ chains[i].errorCalls = 1
    /\ Cardinality(TranscriptSends(chains[i])) = 1
    /\ Cardinality(NotificationSends(chains[i])) = 1
    /\ chains[i].empties = 1

\* C31: chains of different call ids that are in progress at the same time
\* are independent: a step of one chain leaves every other chain as it was,
\* each chain's retry counter counts its own empty fetches only, and its
\* fetch count and terminal outcome follow from the results of its own
\* fetches alone.
C31_ChainsIndependent ==
  [][\A i \in DOMAIN chains :
       /\ \A j \in DOMAIN chains :
            (i # j /\ chains'[i] # chains[i]) => chains'[j] = chains[j]
       /\ chains'[i].retryCount = chains'[i].empties
       /\ chains'[i].fetches <= maxRetries
       /\ (chains'[i].threw \/ GotTranscript(chains'[i]))
            => chains'[i].fetches = chains'[i].empties + 1
       /\ (Terminal(chains'[i]) /\ ~chains'[i].threw
             /\ ~GotTranscript(chains'[i]))
            => /\ chains'[i].fetches = maxRetries
               /\ chains'[i].empties = maxRetries
               /\ chains'[i].errorCalls = 1]_vars

C31_Witness ==
  /\ Len(chains) = 2
  /\ chains[1].callId # chains[2].callId
  /\ Terminal(chains[1]) /\ Terminal(chains[2])
  /\ chains[1].fetches = maxRetries /\ chains[1].empties = maxRetries
  /\ maxRetries > 1
  /\ chains[2].fetches = 1 /\ GotTranscript(chains[2])
  /\ chains[2].errorCalls = 0

\* C32: webhooks handled one after the other start at most one chain per
\* registered call id: a completed call_ended event that arrives again after
\* the first handler has finished is answered 200, starts no chain and so
\* causes no further e-mail.
C32_RedeliveryStartsNothing ==
  [][/\ \A id \in CallIds :
          Cardinality({i \in DOMAIN chains' : chains'[i].callId = id})
            <= (IF id \in issued' THEN 1 ELSE 0)
     /\ (handlerPc = "idle" /\ last' # last /\ CompletedEvent(last')
           /\ ChainsOf(last'.call_id) # {})
          => /\ chains' = chains
             /\ handlerPc' = "idle"
             /\ last'.started = 0
             /\ last'.status = 200]_vars

C32_Witness ==
  /\ handlerPc = "idle"
  /\ CompletedEvent(last) /\ ~last.hadRecord /\ last.started = 0
  /\ ChainsOf(last.call_id) = {1}
  /\ Len(chains) = 1
  /\ Terminal(chains[1])
  /\ Cardinality(OkSends(chains[1])) = 1
  /\ Len(chains[1].sends) = 1

\* C33: a registry entry is removed only by the handling of a call_ended
\* event for that same call id; handling a webhook or an initiation for one
\* call id never changes the entry of another, and an entry is never
\* rewritten, so an entry whose call produces no call_ended event stays.
C33_OnlyOwnCallEndedRemoves ==
  [][\A id \in DOMAIN callMap :
       /\ id \notin DOMAIN callMap'
            => /\ last'.route = "webhook"
               /\ last'.event = "call_ended"
               /\ last'.call_id = id
       /\ id \in DOMAIN callMap' => callMap'[id] = callMap[id]]_vars

C33_Witness ==
  /\ DOMAIN callMap = {"c2"}
  /\ issued = {"c1", "c2"}
  /\ last.route = "webhook" /\ last.event = "call_ended"
  /\ last.call_id = "c1" /\ last.hadRecord /\ last.status = 200
  /\ callMap["c2"] = CallRecord(registered["c2"].body, registered["c2"].time)

\* C34: in the server's retrieval chain every message goes through the one
\* transport the configuration selects (SendGrid when the service is
\* "sendgrid", Gmail otherwise); after a failed transcript send no other
\* transport is tried: the transcript is not sent again and the failure
\* notification is attempted exactly once, through the same transport.
C34_SingleConfiguredTransport ==
  \A i \in DOMAIN chains :
    LET c == chains[i]
        t == IF emailService = "sendgrid" THEN "sendgrid" ELSE "gmail" IN
    /\ \A j \in DOMAIN c.sends : c.sends[j].via = t
    /\ Cardinality(TranscriptSends(c)) <= 1
    /\ (\E j \in TranscriptSends(c) : ~c.sends[j].ok)
         => /\ c.errorCalls = 1
            /\ Cardinality(NotificationSends(c)) <= 1
            /\ Terminal(c) => /\ Len(c.sends) = 2
                              /\ c.sends[1].kind = "transcript"
                              /\ c.sends[2].kind = "error"

C34_Witness ==
  /\ emailService = "sendgrid"
  /\ Len(chains) = 1 /\ Terminal(chains[1])
  /\ Len(chains[1].sends) = 2
  /\ chains[1].sends[1].kind = "transcript" /\ ~chains[1].sends[1].ok
  /\ chains[1].sends[1].via = "sendgrid"
  /\ chains[1].sends[2].kind = "error" /\ chains[1].sends[2].via = "sendgrid"

\* C35: with the service "console" a chain that obtains a non-empty
\* transcript logs it and ends: no transport is invoked and the failure
\* notification is not called.
C35_ConsoleLogsOnly ==
  \A i \in DOMAIN chains :
    (emailService = "console" /\ GotTranscript(chains[i]))
      => /\ Terminal(chains[i])
         /\ chains[i].logged
         /\ chains[i].deliveries = 1
         /\ chains[i].sends = << >>
         /\ chains[i].errorCalls = 0

C35_Witness ==
  /\ emailService = "console"
  /\ Len(chains) = 1 /\ GotTranscript(chains[1])
  /\ chains[1].logged /\ chains[1].empties = 1 /\ chains[1].fetches = 2
  /\ chains[1].body # Absent

\* C36: retryWithBackoff(fn, maxRetries, baseDelay) calls fn at most
\* maxRetries times; it returns the result of the first successful call and
\* calls fn no more; after the k-th failed attempt that is not the last it
\* waits baseDelay * 2^(k-1) before the next call; after maxRetries failures
\* in a row it throws the error of the last attempt, with no wait after it.
C36_RetryWithBackoff ==
  LET b == backoff
      failed == {k \in DOMAIN b.outcomes : ~b.outcomes[k].ok} IN
  b.pc # "idle" =>
    /\ b.calls <= b.maxRetries
    /\ b.calls = Len(b.outcomes) + (IF b.pc = "calling" THEN 1 ELSE 0)
    /\ \A k \in DOMAIN b.outcomes :
          b.outcomes[k].ok => (k = Len(b.outcomes) /\ b.pc = "returned")
    /\ \A k \in DOMAIN b.waits : b.waits[k] = b.baseDelay * 2 ^ (k - 1)
    /\ Len(b.waits) = Cardinality(failed) - (IF b.pc = "threw" THEN 1 ELSE 0)
    /\ (b.pc = "returned" /\ b.calls > 0)
         => /\ b.outcomes[b.calls].ok
            /\ b.result = b.outcomes[b.calls].v
    /\ b.pc = "threw"
         => /\ b.calls = b.maxRetries
            /\ failed = 1 .. b.maxRetries
            /\ b.thrown = b.outcomes[b.maxRetries].v
            /\ Len(b.waits) = b.maxRetries - 1
    /\ (failed = 1 .. b.maxRetries /\ b.maxRetries > 0) => b.pc = "threw"

C36_Witness ==
  /\ backoff.pc = "threw"
  /\ backoff.maxRetries = DefaultBackoffRetries
  /\ backoff.baseDelay = DefaultBaseDelay
  /\ backoff.calls = 3
  /\ backoff.waits = <<1000, 2000>>
  /\ backoff.outcomes[2].v = "e1"
  /\ backoff.thrown = "e2"


====
